---- MODULE Spec2Model ----
(***************************************************************************)
(* Verification model of the array utilities (lang/array) and the AdHoc    *)
(* serialization container.  JavaScript arrays are sequences; the source's *)
(* zero-based indices are kept and translated on access by At.             *)
(***************************************************************************)
EXTENDS Integers, Sequences, FiniteSets, Bags, TLC

\* ------------------------------------------------------------------ bounds
MaxLen == 4
MaxKey == 3
InitLen == 2
MaxA == 3
MaxB == 2
MaxIdx == 3
MaxPart == 4
MaxSize == 3
MaxKids == 1

Keys == 1..MaxKey

\* ins:  the array insert works on and its last call
\*         [arr, nextId, item, prev, ret, op]
\* srch: the array binarySearch is called on and its last call
\*         [a, key, start, end, ret, op]
\* sets: the arguments of the last set operation and what it returned
\*         [a, b, sel, ret, op]; a and b are the caller's arrays after the call
\* idx: the argument of the last indexBy call and its outcome
\*         [a, threw, map, op]
\* part: the partition call in progress
\*         [a, size, copy, partitions, pc]
\* adhoc: an AdHoc container and the last serialization call made on it
\*         [data, text, doc, orig, threw, op]: data is _data, text the string
\*         toJSON returned or parse was given, doc the value a text given to
\*         parse encodes, orig the data toJSON serialized
VARIABLES ins, srch, sets, idx, part, adhoc

vars == <<ins, srch, sets, idx, part, adhoc>>

\* ---------------------------------------------------------------- helpers
\* a[i] with the source's zero-based idx
At(a, i) == a[i + 1]

\* Array.prototype.splice(idx, 0, item)
spliceIn(a, index, item) ==
  SubSeq(a, 1, index) \o <<item>> \o SubSeq(a, index + 1, Len(a))

\* Math.floor(size / 2) for size >= 0
floorHalf(size) == size \div 2

\* The comparator handed to insert: (x, y) => x.k - y.k
comparator(x, y) == x.k - y.k

\* The comparator handed to binarySearch: (key, candidate) => key - candidate.k
keyComparator(key, candidate) == key - candidate.k

\* An element: a sort key and an identity that tells equal keys apart
Elem(k, id) == [k |-> k, id |-> id]

\* the absent result (null) and a placeholder element for "no call yet"
Null == [k |-> 0, id |-> 0]

\* an omitted optional argument (undefined)
Undefined == -1

\* ---------------------------------------------------------------- insert
\* binarySearchForInsert with the base case returning start where the source
\* returns end
RECURSIVE binarySearchForInsertReturnsStart(_, _, _, _)
binarySearchForInsertReturnsStart(a, item, start, end) ==
  LET size == end - start
      midpointIndex == start + floorHalf(size)
      comparison == comparator(item, At(a, midpointIndex)) > 0
  IN IF size < 2
       THEN start
       ELSE IF comparison
              THEN binarySearchForInsertReturnsStart(a, item, midpointIndex, end)
              ELSE binarySearchForInsertReturnsStart(a, item, start, midpointIndex)

RECURSIVE binarySearchForInsert(_, _, _, _)
binarySearchForInsert(a, item, start, end) ==
  LET size == end - start
      midpointIndex == start + floorHalf(size)
      midpointItem == At(a, midpointIndex)
      comparison == comparator(item, midpointItem) > 0
  IN IF size < 2
       THEN IF comparison
              THEN LET finalIndex == Len(a) - 1
                   IN IF end = finalIndex /\ comparator(item, At(a, finalIndex)) > 0
                        THEN end + 1
                        ELSE end
              ELSE start
       ELSE IF comparison
              THEN binarySearchForInsert(a, item, midpointIndex, end)
              ELSE binarySearchForInsert(a, item, start, midpointIndex)

\* insert appending only when the item is strictly greater than the last element
insertAppendsOnlyGreater(a, item) ==
  IF Len(a) = 0 \/ comparator(item, At(a, Len(a) - 1)) > 0
    THEN Append(a, item)
    ELSE IF comparator(item, At(a, 0)) < 0
           THEN <<item>> \o a
           ELSE spliceIn(a, binarySearchForInsert(a, item, 0, Len(a) - 1), item)

insert(a, item) ==
  IF Len(a) = 0 \/ ~(comparator(item, At(a, Len(a) - 1)) < 0)
    THEN Append(a, item)
    ELSE IF comparator(item, At(a, 0)) < 0
           THEN <<item>> \o a
           ELSE spliceIn(a, binarySearchForInsert(a, item, 0, Len(a) - 1), item)

\* ---------------------------------------------------------- binarySearch
\* binarySearchForMatch without the base case's look at the final element
RECURSIVE binarySearchForMatchNoFinalCheck(_, _, _, _)
binarySearchForMatchNoFinalCheck(a, key, start, end) ==
  LET size == end - start
      midpointIndex == start + floorHalf(size)
      midpointItem == At(a, midpointIndex)
      comparison == keyComparator(key, midpointItem)
  IN IF comparison = 0
       THEN midpointItem
       ELSE IF size < 2
              THEN Null
              ELSE IF comparison > 0
                     THEN binarySearchForMatchNoFinalCheck(a, key, midpointIndex, end)
                     ELSE binarySearchForMatchNoFinalCheck(a, key, start, midpointIndex)

RECURSIVE binarySearchForMatch(_, _, _, _)
binarySearchForMatch(a, key, start, end) ==
  LET size == end - start
      midpointIndex == start + floorHalf(size)
      midpointItem == At(a, midpointIndex)
      comparison == keyComparator(key, midpointItem)
  IN IF comparison = 0
       THEN midpointItem
       ELSE IF size < 2
              THEN LET finalIndex == Len(a) - 1
                       finalItem == At(a, finalIndex)
                   IN IF end = finalIndex /\ keyComparator(key, finalItem) = 0
                        THEN finalItem
                        ELSE Null
              ELSE IF comparison > 0
                     THEN binarySearchForMatch(a, key, midpointIndex, end)
                     ELSE binarySearchForMatch(a, key, start, midpointIndex)

\* x || d for an optional number: undefined and 0 are both falsy
orDefault(x, d) == IF x = Undefined \/ x = 0 THEN d ELSE x

binarySearch(a, key, start, end) ==
  IF Len(a) = 0
    THEN Null
    ELSE binarySearchForMatch(a, key, orDefault(start, 0), orDefault(end, Len(a) - 1))

\* -------------------------------------------------------- set operations
\* Elements of the arrays handed to the set operations: a key and a payload
Payloads == {"x", "y"}
SetKeys == {1, 2}
Items == { [k |-> k, v |-> v] : k \in SetKeys, v \in Payloads }

\* The key selectors: "item" is item => item (union, difference, ...),
\* "k" is item => item.k
Selectors == {"item", "k"}
keySelector(sel, item) == IF sel = "k" THEN <<item.k>> ELSE <<item.k, item.v>>

\* Array.prototype.some(comparison => candidateKey === keySelector(comparison))
someKey(a, sel, candidateKey) ==
  \E i \in DOMAIN a : candidateKey = keySelector(sel, a[i])

\* differenceBy that also skips a candidate whose key is already in the result
RECURSIVE differenceByUniqueFrom(_, _, _, _, _)
differenceByUniqueFrom(a, b, sel, i, returnRef) ==
  IF i > Len(a)
    THEN returnRef
    ELSE LET candidateKey == keySelector(sel, a[i])
             exclude == someKey(b, sel, candidateKey) \/ someKey(returnRef, sel, candidateKey)
         IN differenceByUniqueFrom(a, b, sel, i + 1,
              IF ~exclude THEN Append(returnRef, a[i]) ELSE returnRef)

differenceByUnique(a, b, sel) == differenceByUniqueFrom(a, b, sel, 1, <<>>)

\* the forEach of differenceBy from element i on
RECURSIVE differenceByFrom(_, _, _, _, _)
differenceByFrom(a, b, sel, i, returnRef) ==
  IF i > Len(a)
    THEN returnRef
    ELSE LET candidateKey == keySelector(sel, a[i])
             exclude == someKey(b, sel, candidateKey)
         IN differenceByFrom(a, b, sel, i + 1,
              IF ~exclude THEN Append(returnRef, a[i]) ELSE returnRef)

differenceBy(a, b, sel) == differenceByFrom(a, b, sel, 1, <<>>)

\* the forEach of intersectionBy from element i on
RECURSIVE intersectionByFrom(_, _, _, _, _)
intersectionByFrom(a, b, sel, i, returnRef) ==
  IF i > Len(a)
    THEN returnRef
    ELSE LET candidateKey == keySelector(sel, a[i])
             include == someKey(b, sel, candidateKey)
         IN intersectionByFrom(a, b, sel, i + 1,
              IF include THEN Append(returnRef, a[i]) ELSE returnRef)

intersectionBy(a, b, sel) == intersectionByFrom(a, b, sel, 1, <<>>)

\* the forEach of unionBy from element i of b on
RECURSIVE unionByFrom(_, _, _, _)
unionByFrom(b, sel, i, returnRef) ==
  IF i > Len(b)
    THEN returnRef
    ELSE LET candidateKey == keySelector(sel, b[i])
             exclude == someKey(returnRef, sel, candidateKey)
         IN unionByFrom(b, sel, i + 1,
              IF ~exclude THEN Append(returnRef, b[i]) ELSE returnRef)

\* unionBy testing a candidate of b against a instead of against returnRef
RECURSIVE unionByChecksOnlyAFrom(_, _, _, _, _)
unionByChecksOnlyAFrom(a, b, sel, i, returnRef) ==
  IF i > Len(b)
    THEN returnRef
    ELSE LET candidateKey == keySelector(sel, b[i])
             exclude == someKey(a, sel, candidateKey)
         IN unionByChecksOnlyAFrom(a, b, sel, i + 1,
              IF ~exclude THEN Append(returnRef, b[i]) ELSE returnRef)

unionByChecksOnlyA(a, b, sel) == unionByChecksOnlyAFrom(a, b, sel, 1, a)

\* Array.prototype.slice(): a copy
slice(a) == a

unionBy(a, b, sel) == unionByFrom(b, sel, 1, slice(a))

\* differenceSymmetricBy joining the two differences by concatenation
differenceSymmetricByConcat(a, b, sel) ==
  differenceBy(a, b, sel) \o differenceBy(b, a, sel)

differenceSymmetricBy(a, b, sel) ==
  unionBy(differenceBy(a, b, sel), differenceBy(b, a, sel), sel)

RECURSIVE SeqsUpTo(_, _)
SeqsUpTo(S, n) ==
  IF n = 0 THEN { <<>> }
  ELSE LET shorter == SeqsUpTo(S, n - 1)
       IN shorter \cup { Append(s, x) : s \in { t \in shorter : Len(t) = n - 1 }, x \in S }

\* ---------------------------------------------------------------- indexBy
\* Number.prototype.toString for the small non-negative integers used as keys
DigitChars == <<"0", "1", "2", "3", "4", "5", "6", "7", "8", "9">>
numberToString(n) == DigitChars[n + 1]

\* keys a key selector may return: numbers and strings
NumberKey(n) == [t |-> "number", n |-> n, s |-> ""]
StringKey(s) == [t |-> "string", n |-> 0, s |-> s]
IndexKeys == { NumberKey(1), NumberKey(2), StringKey("1"), StringKey("2") }
IndexItems == { [key |-> key, v |-> v] : key \in IndexKeys, v \in Payloads }

\* the key selector handed to indexBy: x => x.key
indexKeySelector(item) == item.key

\* the property name map[key] and map.hasOwnProperty(key) address
toPropertyKey(key) == IF key.t = "number" THEN numberToString(key.n) ELSE key.s

\* indexBy assigning map[key] without the hasOwnProperty test
RECURSIVE indexByOverwritesFrom(_, _, _)
indexByOverwritesFrom(a, i, map) ==
  IF i > Len(a)
    THEN [threw |-> FALSE, map |-> map]
    ELSE LET name == toPropertyKey(indexKeySelector(a[i]))
         IN indexByOverwritesFrom(a, i + 1,
              [n \in DOMAIN map \cup {name} |-> IF n = name THEN a[i] ELSE map[n]])

indexByOverwrites(a) == indexByOverwritesFrom(a, 1, <<>>)

\* the reduce of indexBy from element i on; map is the accumulator
RECURSIVE indexByFrom(_, _, _)
indexByFrom(a, i, map) ==
  IF i > Len(a)
    THEN [threw |-> FALSE, map |-> map]
    ELSE LET item == a[i]
             name == toPropertyKey(indexKeySelector(item))
         IN IF name \in DOMAIN map
              THEN [threw |-> TRUE, map |-> <<>>]
              ELSE indexByFrom(a, i + 1,
                     [n \in DOMAIN map \cup {name} |-> IF n = name THEN item ELSE map[n]])

indexBy(a) == indexByFrom(a, 1, <<>>)

\* -------------------------------------------------------------- partition
PartValues == {1, 2}

\* Array.prototype.splice(0, size): what it removes and what it leaves
spliceHead(copy, size) ==
  LET n == IF size < Len(copy) THEN size ELSE Len(copy)
  IN [removed |-> SubSeq(copy, 1, n), rest |-> SubSeq(copy, n + 1, Len(copy))]

\* splice(0, size) that hands back one element fewer than it removes
spliceHeadLosesOne(copy, size) ==
  LET n == IF size < Len(copy) THEN size ELSE Len(copy)
  IN [removed |-> SubSeq(copy, 1, n - 1), rest |-> SubSeq(copy, n + 1, Len(copy))]

\* one pass of the while loop of partition
partitionStepLosesOne(p) ==
  LET r == spliceHeadLosesOne(p.copy, p.size)
  IN [p EXCEPT !.copy = r.rest, !.partitions = Append(p.partitions, r.removed)]

partitionStep(p) ==
  LET r == spliceHead(p.copy, p.size)
  IN [p EXCEPT !.copy = r.rest, !.partitions = Append(p.partitions, r.removed)]

\* passes of the loop the model follows before it stops watching a call
MaxPasses == MaxPart + 1

\* ------------------------------------------------------------------ AdHoc
\* Values a container may hold.  Strings and JSON texts are sequences of
\* one-character strings.
JsonNumbers == {0, 12}
JsonStrings == { <<>>, <<"a">> }
MemberNames == { <<"a">>, <<"b">> }

JV(t, n, s, kids, names) == [t |-> t, n |-> n, s |-> s, kids |-> kids, names |-> names]
JNull == JV("null", 0, <<>>, <<>>, <<>>)
JBool(b) == JV(IF b THEN "true" ELSE "false", 0, <<>>, <<>>, <<>>)
JNumber(n) == JV("number", n, <<>>, <<>>, <<>>)
JInfinity == JV("Infinity", 0, <<>>, <<>>, <<>>)
JString(s) == JV("string", 0, s, <<>>, <<>>)
JArray(kids) == JV("array", 0, <<>>, kids, <<>>)
JObject(names, kids) == JV("object", 0, <<>>, kids, names)

\* { }
EmptyObject == JObject(<<>>, <<>>)

JsonAtoms ==
  { JNull, JBool(TRUE), JBool(FALSE) }
    \cup { JNumber(n) : n \in JsonNumbers } \cup { JString(str) : str \in JsonStrings }

\* values JSON.stringify does not write back as themselves
Atoms == JsonAtoms \cup { JInfinity }

DistinctNames(n) ==
  { ns \in [1..n -> MemberNames] : \A i, j \in 1..n : i # j => ns[i] # ns[j] }

ValuesOver(atoms) ==
  atoms
    \cup { JArray(kids) : kids \in SeqsUpTo(atoms, MaxKids) }
    \cup UNION { { JObject(ns, kids) : ns \in DistinctNames(n), kids \in [1..n -> atoms] } :
                   n \in 0..MaxKids }

\* every value of the model, and those among them that are JSON documents
Values == ValuesOver(Atoms)
JsonDocs == ValuesOver(JsonAtoms)

\* the values for which data || { } takes the right-hand side
falsy(v) ==
  \/ v.t \in {"null", "false"}
  \/ v.t = "number" /\ v.n = 0
  \/ v.t = "string" /\ v.s = <<>>

\* a constructor that stores its argument as it is
constructKeepsData(data) == data

\* constructor(data): this._data = data || { }
construct(data) == IF falsy(data) THEN EmptyObject ELSE data

RECURSIVE numberToChars(_)
numberToChars(n) ==
  IF n < 10 THEN <<DigitChars[n + 1]>>
  ELSE numberToChars(n \div 10) \o <<DigitChars[(n % 10) + 1]>>

quote(str) == <<"\"">> \o str \o <<"\"">>

\* JSON.stringify
RECURSIVE stringify(_)
RECURSIVE stringifyElements(_, _)
RECURSIVE stringifyMembers(_, _, _)
stringify(v) ==
  CASE v.t = "null" -> <<"n", "u", "l", "l">>
    [] v.t = "true" -> <<"t", "r", "u", "e">>
    [] v.t = "false" -> <<"f", "a", "l", "s", "e">>
    [] v.t = "number" -> numberToChars(v.n)
    [] v.t = "Infinity" -> <<"n", "u", "l", "l">>
    [] v.t = "string" -> quote(v.s)
    [] v.t = "array" -> <<"[">> \o stringifyElements(v.kids, 1) \o <<"]">>
    [] v.t = "object" -> <<"{">> \o stringifyMembers(v.names, v.kids, 1) \o <<"}">>

stringifyElements(kids, i) ==
  IF i > Len(kids) THEN <<>>
  ELSE (IF i > 1 THEN <<",">> ELSE <<>>) \o stringify(kids[i])
         \o stringifyElements(kids, i + 1)

stringifyMembers(names, kids, i) ==
  IF i > Len(kids) THEN <<>>
  ELSE (IF i > 1 THEN <<",">> ELSE <<>>) \o quote(names[i]) \o <<":">>
         \o stringify(kids[i]) \o stringifyMembers(names, kids, i + 1)

\* toJSON(): JSON.stringify(this._data)
toJSON(data) == stringify(data)

\* JSON.parse: a recursive-descent reading of the text; pos is the position
\* after what was read
ParseFail == [ok |-> FALSE, val |-> JNull, pos |-> 0]
ParseOk(v, pos) == [ok |-> TRUE, val |-> v, pos |-> pos]

charAt(t, i) == IF i >= 1 /\ i <= Len(t) THEN t[i] ELSE ""
isDigit(c) == \E d \in DOMAIN DigitChars : DigitChars[d] = c
digitOf(c) == (CHOOSE d \in DOMAIN DigitChars : DigitChars[d] = c) - 1
literalAt(t, i, word) ==
  i + Len(word) - 1 <= Len(t) /\ SubSeq(t, i, i + Len(word) - 1) = word

RECURSIVE skipWs(_, _)
skipWs(t, i) == IF charAt(t, i) = " " THEN skipWs(t, i + 1) ELSE i

RECURSIVE parseDigits(_, _, _)
parseDigits(t, i, n) ==
  IF isDigit(charAt(t, i))
    THEN parseDigits(t, i + 1, n * 10 + digitOf(charAt(t, i)))
    ELSE ParseOk(JNumber(n), i)

RECURSIVE parseChars(_, _, _)
parseChars(t, i, acc) ==
  IF i > Len(t) THEN ParseFail
  ELSE IF t[i] = "\"" THEN ParseOk(JString(acc), i + 1)
  ELSE parseChars(t, i + 1, Append(acc, t[i]))

RECURSIVE parseValue(_, _)
RECURSIVE parseElements(_, _, _)
RECURSIVE parseMembers(_, _, _, _)
parseValue(t, i0) ==
  LET i == skipWs(t, i0)
      c == charAt(t, i)
  IN CASE c = "n" ->
            IF literalAt(t, i, <<"n", "u", "l", "l">>) THEN ParseOk(JNull, i + 4) ELSE ParseFail
       [] c = "t" ->
            IF literalAt(t, i, <<"t", "r", "u", "e">>)
              THEN ParseOk(JBool(TRUE), i + 4) ELSE ParseFail
       [] c = "f" ->
            IF literalAt(t, i, <<"f", "a", "l", "s", "e">>)
              THEN ParseOk(JBool(FALSE), i + 5) ELSE ParseFail
       [] isDigit(c) -> parseDigits(t, i, 0)
       [] c = "\"" -> parseChars(t, i + 1, <<>>)
       [] c = "[" ->
            LET j == skipWs(t, i + 1)
            IN IF charAt(t, j) = "]" THEN ParseOk(JArray(<<>>), j + 1)
               ELSE parseElements(t, j, <<>>)
       [] c = "{" ->
            LET j == skipWs(t, i + 1)
            IN IF charAt(t, j) = "}" THEN ParseOk(EmptyObject, j + 1)
               ELSE parseMembers(t, j, <<>>, <<>>)
       [] OTHER -> ParseFail

parseElements(t, i, kids) ==
  LET r == parseValue(t, i)
      j == skipWs(t, r.pos)
  IN IF ~r.ok THEN ParseFail
     ELSE IF charAt(t, j) = "," THEN parseElements(t, j + 1, Append(kids, r.val))
     ELSE IF charAt(t, j) = "]" THEN ParseOk(JArray(Append(kids, r.val)), j + 1)
     ELSE ParseFail

parseMembers(t, i, names, kids) ==
  LET k == skipWs(t, i)
      name == parseChars(t, k + 1, <<>>)
      c == skipWs(t, name.pos)
      r == parseValue(t, c + 1)
      j == skipWs(t, r.pos)
  IN IF charAt(t, k) # "\"" \/ ~name.ok \/ charAt(t, c) # ":" \/ ~r.ok THEN ParseFail
     ELSE IF charAt(t, j) = ","
       THEN parseMembers(t, j + 1, Append(names, name.val.s), Append(kids, r.val))
     ELSE IF charAt(t, j) = "}"
       THEN ParseOk(JObject(Append(names, name.val.s), Append(kids, r.val)), j + 1)
     ELSE ParseFail

JSONparse(t) ==
  LET r == parseValue(t, 1)
  IN IF r.ok /\ skipWs(t, r.pos) = Len(t) + 1 THEN r ELSE ParseFail

\* static parse(serialized): new AdHoc(JSON.parse(serialized)); a SyntaxError
\* of JSON.parse propagates
parse(serialized) ==
  LET r == JSONparse(serialized)
  IN IF r.ok THEN [threw |-> FALSE, data |-> construct(r.val)]
     ELSE [threw |-> TRUE, data |-> JNull]

\* texts that are not JSON
InvalidTexts == { <<"n", "u", "l">>, <<"[", "1">>, <<"{", "a", "}">>, <<>> }

\* ------------------------------------------------------------ input sets
\* arrays of length n sorted ascending by key, identities 1..n by position
SortedArrays(n) ==
  { [i \in 1..n |-> Elem(ks[i], i)] :
      ks \in { s \in [1..n -> Keys] : \A i \in 1..(n - 1) : s[i] <= s[i + 1] } }

SortedUpTo(n) == UNION { SortedArrays(m) : m \in 0..n }

\* ------------------------------------------------------------- behaviour
\* no call made yet
IdleInsert ==
  [arr |-> <<>>, nextId |-> 1, item |-> Null, prev |-> <<>>, ret |-> <<>>, op |-> "none"]

IdleSearch ==
  [a |-> <<>>, key |-> 0, start |-> Undefined, end |-> Undefined, ret |-> Null, op |-> "none"]

IdleSets ==
  [a |-> <<>>, b |-> <<>>, sel |-> "item", ret |-> <<>>, op |-> "none"]

IdleIndex ==
  [a |-> <<>>, threw |-> FALSE, map |-> <<>>, op |-> "none"]

IdlePart ==
  [a |-> <<>>, size |-> 1, copy |-> <<>>, partitions |-> <<>>, pc |-> "idle"]

\* new AdHoc()
IdleAdHoc ==
  [data |-> EmptyObject, text |-> <<>>, doc |-> JNull, orig |-> JNull,
   threw |-> FALSE, op |-> "new"]

InitInsert ==
  /\ sets = IdleSets
  /\ idx = IdleIndex
  /\ part = IdlePart
  /\ adhoc = IdleAdHoc
  /\ ins \in { [IdleInsert EXCEPT !.arr = a, !.nextId = Len(a) + 1] : a \in SortedUpTo(InitLen) }
  /\ srch = IdleSearch

InitSearch ==
  /\ sets = IdleSets
  /\ idx = IdleIndex
  /\ part = IdlePart
  /\ adhoc = IdleAdHoc
  /\ srch \in { [IdleSearch EXCEPT !.a = a] : a \in SortedUpTo(MaxLen) }
  /\ ins = IdleInsert

\* insert(a, item, comparator): mutates a in place and returns it
Insert ==
  /\ Len(ins.arr) < MaxLen
  /\ \E k \in Keys :
       LET item == Elem(k, ins.nextId)
           a == insert(ins.arr, item)
       IN ins' = [arr |-> a, nextId |-> ins.nextId + 1, item |-> item,
                  prev |-> ins.arr, ret |-> a, op |-> "insert"]
  /\ UNCHANGED <<srch, sets, idx, part, adhoc>>

\* binarySearch(a, key, comparator): start and end omitted
BinarySearchDefault ==
  /\ \E key \in 0..(MaxKey + 1) :
       srch' = [a |-> srch.a, key |-> key, start |-> Undefined, end |-> Undefined,
                ret |-> binarySearch(srch.a, key, Undefined, Undefined), op |-> "default"]
  /\ UNCHANGED <<ins, sets, idx, part, adhoc>>

\* binarySearch(a, key, comparator, start, end): explicit bounds
BinarySearchBounded ==
  /\ Len(srch.a) > 0
  /\ \E key \in 0..(MaxKey + 1), start \in 0..(Len(srch.a) - 1) :
       \E end \in start..(Len(srch.a) - 1) :
         srch' = [a |-> srch.a, key |-> key, start |-> start, end |-> end,
                  ret |-> binarySearch(srch.a, key, start, end), op |-> "bounded"]
  /\ UNCHANGED <<ins, sets, idx, part, adhoc>>

InitSets ==
  /\ sets \in { [IdleSets EXCEPT !.a = a, !.b = b, !.sel = sel] :
                  a \in SeqsUpTo(Items, MaxA), b \in SeqsUpTo(Items, MaxB), sel \in Selectors }
  /\ ins = IdleInsert
  /\ srch = IdleSearch
  /\ idx = IdleIndex
  /\ part = IdlePart
  /\ adhoc = IdleAdHoc

\* unionBy(a, b, keySelector); union(a, b) is the call with sel = "item"
UnionBy ==
  /\ sets' = [sets EXCEPT !.ret = unionBy(sets.a, sets.b, sets.sel), !.op = "unionBy"]
  /\ UNCHANGED <<ins, srch, idx, part, adhoc>>

\* differenceBy(a, b, keySelector)
DifferenceBy ==
  /\ sets' = [sets EXCEPT !.ret = differenceBy(sets.a, sets.b, sets.sel), !.op = "differenceBy"]
  /\ UNCHANGED <<ins, srch, idx, part, adhoc>>

\* intersectionBy(a, b, keySelector)
IntersectionBy ==
  /\ sets' = [sets EXCEPT !.ret = intersectionBy(sets.a, sets.b, sets.sel), !.op = "intersectionBy"]
  /\ UNCHANGED <<ins, srch, idx, part, adhoc>>

\* differenceSymmetricBy(a, b, keySelector)
DifferenceSymmetricBy ==
  /\ sets' = [sets EXCEPT !.ret = differenceSymmetricBy(sets.a, sets.b, sets.sel),
                           !.op = "differenceSymmetricBy"]
  /\ UNCHANGED <<ins, srch, idx, part, adhoc>>

InitIndex ==
  /\ idx \in { [IdleIndex EXCEPT !.a = a] : a \in SeqsUpTo(IndexItems, MaxIdx) }
  /\ ins = IdleInsert
  /\ srch = IdleSearch
  /\ sets = IdleSets
  /\ part = IdlePart
  /\ adhoc = IdleAdHoc

\* indexBy(a, keySelector)
IndexBy ==
  /\ LET r == indexBy(idx.a)
     IN idx' = [a |-> idx.a, threw |-> r.threw, map |-> r.map, op |-> "indexBy"]
  /\ UNCHANGED <<ins, srch, sets, part, adhoc>>

InitPart ==
  /\ part \in { [IdlePart EXCEPT !.a = a] : a \in SeqsUpTo(PartValues, MaxPart) }
  /\ ins = IdleInsert
  /\ srch = IdleSearch
  /\ sets = IdleSets
  /\ idx = IdleIndex
  /\ adhoc = IdleAdHoc

\* partition(a, size) up to the loop: copy = a.slice(0), partitions = []
PartitionCall ==
  /\ part.pc \in {"idle", "done"}
  /\ \E size \in 0..MaxSize :
       part' = [a |-> part.a, size |-> size, copy |-> slice(part.a),
                partitions |-> <<>>, pc |-> "loop"]
  /\ UNCHANGED <<ins, srch, sets, idx, adhoc>>

\* while (copy.length !== 0) partitions.push(copy.splice(0, size))
PartitionLoop ==
  /\ part.pc = "loop"
  /\ Len(part.copy) # 0
  /\ Len(part.partitions) < MaxPasses
  /\ part' = partitionStep(part)
  /\ UNCHANGED <<ins, srch, sets, idx, adhoc>>

\* return partitions
PartitionReturn ==
  /\ part.pc = "loop"
  /\ Len(part.copy) = 0
  /\ part' = [part EXCEPT !.pc = "done"]
  /\ UNCHANGED <<ins, srch, sets, idx, adhoc>>

InitAdHoc ==
  /\ adhoc = IdleAdHoc
  /\ ins = IdleInsert
  /\ srch = IdleSearch
  /\ sets = IdleSets
  /\ idx = IdleIndex
  /\ part = IdlePart

\* new AdHoc(data)
Construct ==
  /\ \E data \in Values :
       adhoc' = [IdleAdHoc EXCEPT !.data = construct(data)]
  /\ UNCHANGED <<ins, srch, sets, idx, part>>

\* c.toJSON()
ToJSON ==
  /\ adhoc' = [adhoc EXCEPT !.text = toJSON(adhoc.data), !.orig = adhoc.data,
                            !.threw = FALSE, !.op = "toJSON"]
  /\ UNCHANGED <<ins, srch, sets, idx, part>>

\* AdHoc.parse(s) for a text s that encodes the JSON document doc, with or
\* without a leading space
Parse ==
  /\ \E doc \in JsonDocs, lead \in { <<>>, <<" ">> } :
       LET serialized == lead \o stringify(doc)
           r == parse(serialized)
       IN adhoc' = [data |-> r.data, text |-> serialized, doc |-> doc, orig |-> JNull,
                    threw |-> r.threw, op |-> "parse"]
  /\ UNCHANGED <<ins, srch, sets, idx, part>>

\* AdHoc.parse(c.toJSON())
ParseSerialized ==
  /\ adhoc.op = "toJSON"
  /\ LET r == parse(adhoc.text)
     IN adhoc' = [adhoc EXCEPT !.data = r.data, !.threw = r.threw, !.op = "roundtrip"]
  /\ UNCHANGED <<ins, srch, sets, idx, part>>

\* AdHoc.parse(s) for a text that is not JSON: the error propagates and no
\* container is returned
ParseInvalid ==
  /\ \E serialized \in InvalidTexts :
       LET r == parse(serialized)
       IN /\ r.threw
          /\ adhoc' = [IdleAdHoc EXCEPT !.text = serialized, !.threw = TRUE, !.op = "parseError"]
  /\ UNCHANGED <<ins, srch, sets, idx, part>>

NextInsert == Insert
NextAdHoc == Construct \/ ToJSON \/ Parse \/ ParseSerialized \/ ParseInvalid
NextIndex == IndexBy
NextPart == PartitionCall \/ PartitionLoop \/ PartitionReturn
NextSets == UnionBy \/ DifferenceBy \/ IntersectionBy \/ DifferenceSymmetricBy
NextSearch == BinarySearchDefault \/ BinarySearchBounded

SpecInsert == InitInsert /\ [][NextInsert]_vars
SpecSearch == InitSearch /\ [][NextSearch]_vars
SpecSets == InitSets /\ [][NextSets]_vars
SpecAdHoc == InitAdHoc /\ [][NextAdHoc]_vars
SpecIndex == InitIndex /\ [][NextIndex]_vars
\* the loop is synchronous code: once entered it runs until its test fails
SpecPartition ==
  InitPart /\ [][NextPart]_vars /\ WF_vars(PartitionLoop) /\ WF_vars(PartitionReturn)

\* ------------------------------------------------------------ properties
Sorted(a) == \A i \in 1..(Len(a) - 1) : comparator(a[i], a[i + 1]) <= 0

BagOfSeq(a) == [x \in { a[i] : i \in DOMAIN a } |-> Cardinality({ i \in DOMAIN a : a[i] = x })]

\* the one-based position of the element the last insert call added
insPos == CHOOSE j \in DOMAIN ins.arr : ins.arr[j] = ins.item

\* positions of the elements that were there before and compare equal to the item
EqualBefore == { i \in DOMAIN ins.arr : i # insPos /\ comparator(ins.arr[i], ins.item) = 0 }

\* C1: starting from a sorted array, after any sequence of insert calls the
\* array is sorted ascending by the comparator, and each call returns the same
\* array whose multiset of elements is the previous multiset plus the item.
C1_InsertKeepsSorted ==
  /\ Sorted(ins.arr)
  /\ ins.op = "insert" =>
       /\ ins.ret = ins.arr
       /\ BagOfSeq(ins.arr) = BagOfSeq(ins.prev) (+) SetToBag({ins.item})

\* an insert that went through the bisection: the item landed strictly inside
C1_Witness ==
  /\ ins.op = "insert"
  /\ Len(ins.arr) = MaxLen
  /\ insPos > 1 /\ insPos < Len(ins.arr)
  /\ comparator(ins.arr[insPos - 1], ins.item) < 0
  /\ comparator(ins.item, ins.arr[insPos + 1]) < 0

\* C2: without start/end, binarySearch on a sorted array returns an element
\* comparing equal to the key whenever one exists at any idx, and null
\* exactly when none does.
C2_SearchFindsMatch ==
  srch.op = "default" =>
    LET matches == { i \in DOMAIN srch.a : keyComparator(srch.key, srch.a[i]) = 0 }
    IN IF matches = {}
         THEN srch.ret = Null
         ELSE srch.ret \in { srch.a[i] : i \in matches }

\* the only match sits at the last idx of an even-length array
C2_Witness ==
  /\ srch.op = "default"
  /\ Len(srch.a) = MaxLen
  /\ srch.ret # Null
  /\ srch.ret = srch.a[Len(srch.a)]
  /\ \A i \in 1..(Len(srch.a) - 1) : keyComparator(srch.key, srch.a[i]) # 0

\* C3: with explicit bounds 0 <= start <= end <= a.length - 1, binarySearch
\* returns an element at an idx in [start, end] that compares equal to the
\* key if one exists there, and null otherwise.
C3_BoundedSearchInRange ==
  srch.op = "bounded" =>
    LET matches == { i \in (srch.start + 1)..(srch.end + 1) :
                       keyComparator(srch.key, srch.a[i]) = 0 }
    IN IF matches = {}
         THEN srch.ret = Null
         ELSE srch.ret \in { srch.a[i] : i \in matches }

\* C4 as stated: the inserted item ends up after every pre-existing element
\* that compares equal to it, wherever the equal run lies.
C4_AfterAllEqual ==
  ins.op = "insert" => \A i \in EqualBefore : i < insPos

\* C4 amended: the item goes after the pre-existing equal elements when it
\* compares equal to the last element of the array (it is appended), and
\* before all of them when a strictly greater element follows the equal run.
C4_TiePlacement ==
  ins.op = "insert" /\ ins.prev # <<>> =>
    IF comparator(ins.item, ins.prev[Len(ins.prev)]) >= 0
      THEN \A i \in EqualBefore : i < insPos
      ELSE \A i \in EqualBefore : i > insPos

\* a tie in the middle of the array: equal elements on the right of the item
C4_Witness ==
  /\ ins.op = "insert"
  /\ Len(ins.prev) >= 3
  /\ comparator(ins.item, ins.prev[1]) > 0
  /\ comparator(ins.item, ins.prev[Len(ins.prev)]) < 0
  /\ Cardinality(EqualBefore) >= 1

\* the subsequence of s at the positions in P, in order
RECURSIVE SubAtFrom(_, _, _)
SubAtFrom(s, P, i) ==
  IF i > Len(s) THEN <<>>
  ELSE (IF i \in P THEN <<s[i]>> ELSE <<>>) \o SubAtFrom(s, P, i + 1)

SubAt(s, P) == SubAtFrom(s, P, 1)

KeysOf(s, sel) == { keySelector(sel, s[i]) : i \in DOMAIN s }

\* positions of s whose key no earlier element of s has
FirstOfKey(s, sel) ==
  { j \in DOMAIN s : \A i \in 1..(j - 1) : keySelector(sel, s[i]) # keySelector(sel, s[j]) }

\* positions of s whose key is absent from t
AbsentFrom(s, t, sel) == { j \in DOMAIN s : keySelector(sel, s[j]) \notin KeysOf(t, sel) }

NoDuplicateKeys(s, sel) ==
  \A i, j \in DOMAIN s : i # j => keySelector(sel, s[i]) # keySelector(sel, s[j])

\* C5 as stated: unionBy(a, b, keySelector) is a followed by exactly those
\* elements of b, in b's order, whose key is absent from a; a and b unmodified.
C5_UnionAppendsAllAbsent ==
  sets.op = "unionBy" =>
    sets.ret = sets.a \o SubAt(sets.b, AbsentFrom(sets.b, sets.a, sets.sel))

\* C5 amended: unionBy(a, b, keySelector) is a, in order with its duplicates,
\* followed by the first element per key of b, in b's order, among those whose
\* key is absent from a.
C5_UnionAppendsFirstAbsent ==
  sets.op = "unionBy" =>
    sets.ret = sets.a \o SubAt(sets.b, AbsentFrom(sets.b, sets.a, sets.sel)
                                         \cap FirstOfKey(sets.b, sets.sel))

\* b repeats a key that a lacks, and a has a duplicate of its own
C5_Witness ==
  /\ sets.op = "unionBy"
  /\ sets.sel = "k"
  /\ ~NoDuplicateKeys(sets.a, sets.sel)
  /\ Len(sets.b) = 2
  /\ sets.b[1] # sets.b[2]
  /\ keySelector(sets.sel, sets.b[1]) = keySelector(sets.sel, sets.b[2])
  /\ AbsentFrom(sets.b, sets.a, sets.sel) = {1, 2}
  /\ Len(sets.ret) = Len(sets.a) + 1

\* C6 as stated: the result of differenceSymmetricBy is (a minus b) followed
\* by (b minus a), and no two of its elements have the same key.
C6_SymmetricNoDuplicateKeys ==
  sets.op = "differenceSymmetricBy" =>
    NoDuplicateKeys(sets.ret, sets.sel)

\* C6 amended: differenceSymmetricBy returns all of (a minus b) in a's order,
\* duplicates retained, followed by the first element per key of (b minus a)
\* in b's order; two elements with the same key both come from a.
C6_SymmetricDedupesOnlyB ==
  sets.op = "differenceSymmetricBy" =>
    LET fromA == SubAt(sets.a, AbsentFrom(sets.a, sets.b, sets.sel))
        fromB == SubAt(sets.b, AbsentFrom(sets.b, sets.a, sets.sel)
                                 \cap FirstOfKey(sets.b, sets.sel))
    IN /\ sets.ret = fromA \o fromB
       /\ \A i, j \in DOMAIN sets.ret :
            i < j /\ keySelector(sets.sel, sets.ret[i]) = keySelector(sets.sel, sets.ret[j])
              => j <= Len(fromA)

\* a key repeated in a only and another key repeated in b only
C6_Witness ==
  /\ sets.op = "differenceSymmetricBy"
  /\ Len(sets.b) = 2
  /\ keySelector(sets.sel, sets.b[1]) = keySelector(sets.sel, sets.b[2])
  /\ AbsentFrom(sets.b, sets.a, sets.sel) = {1, 2}
  /\ Len(sets.a) >= 2
  /\ keySelector(sets.sel, sets.a[1]) = keySelector(sets.sel, sets.a[2])
  /\ Len(sets.ret) = Len(sets.a) + 1

\* C7: intersectionBy(a, b, k) and differenceBy(a, b, k) partition a: the
\* intersection is the subsequence of a at the positions whose key matches an
\* element of b, the difference the subsequence at the other positions, so
\* every position goes to exactly one of them and the lengths sum to a.length.
C7_IntersectionDifferencePartition ==
  LET inB == DOMAIN sets.a \ AbsentFrom(sets.a, sets.b, sets.sel)
      notInB == AbsentFrom(sets.a, sets.b, sets.sel)
  IN /\ sets.op = "intersectionBy" =>
          /\ sets.ret = SubAt(sets.a, inB)
          /\ Len(sets.ret) + Len(differenceBy(sets.a, sets.b, sets.sel)) = Len(sets.a)
     /\ sets.op = "differenceBy" =>
          /\ sets.ret = SubAt(sets.a, notInB)
          /\ Len(sets.ret) + Len(intersectionBy(sets.a, sets.b, sets.sel)) = Len(sets.a)

\* a has a duplicate that matches b and an element that does not
C7_Witness ==
  /\ sets.op = "intersectionBy"
  /\ Len(sets.a) = MaxA
  /\ Len(sets.ret) = 2
  /\ sets.ret[1] = sets.ret[2]
  /\ sets.a[1] # sets.a[2]

\* positions of idx.a that share their key, by strict equality, with another
StrictDuplicates ==
  { i \in DOMAIN idx.a :
      \E j \in DOMAIN idx.a :
        i # j /\ indexKeySelector(idx.a[i]) = indexKeySelector(idx.a[j]) }

\* positions of idx.a whose key names the same property as another's
NameDuplicates ==
  { i \in DOMAIN idx.a :
      \E j \in DOMAIN idx.a :
        i # j /\ toPropertyKey(indexKeySelector(idx.a[i]))
                   = toPropertyKey(indexKeySelector(idx.a[j])) }

\* the map has one entry per element and each key leads to its element
MapsEachElement ==
  /\ Cardinality(DOMAIN idx.map) = Len(idx.a)
  /\ \A i \in DOMAIN idx.a :
       LET name == toPropertyKey(indexKeySelector(idx.a[i]))
       IN name \in DOMAIN idx.map /\ idx.map[name] = idx.a[i]

\* C8 as stated: indexBy throws the duplicate-key error if and only if two
\* elements map to the same key; otherwise the mapping has a.length entries,
\* each key mapping to the element that produced it.
C8_ThrowsIffSameKey ==
  idx.op = "indexBy" =>
    /\ idx.threw <=> StrictDuplicates # {}
    /\ ~idx.threw => MapsEachElement

\* C8 amended: indexBy throws the duplicate-key error if and only if the keys
\* of two elements convert to the same property name (String(key), so 1 and
\* "1" collide); otherwise the mapping has a.length entries, each key mapping
\* to the element that produced it.
C8_ThrowsIffSamePropertyName ==
  idx.op = "indexBy" =>
    /\ idx.threw <=> NameDuplicates # {}
    /\ ~idx.threw => MapsEachElement

\* the error for a number and a string that name the same property
C8_Witness ==
  /\ idx.op = "indexBy"
  /\ idx.threw
  /\ Len(idx.a) = MaxIdx
  /\ StrictDuplicates = {}

RECURSIVE Flatten(_)
Flatten(chunks) ==
  IF chunks = <<>> THEN <<>> ELSE Head(chunks) \o Flatten(Tail(chunks))

\* what partition returned for a positive size
PartitionResultRight ==
  part.pc = "done" /\ part.size >= 1 =>
    /\ Flatten(part.partitions) = part.a
    /\ \A i \in DOMAIN part.partitions :
         /\ Len(part.partitions[i]) >= 1
         /\ Len(part.partitions[i]) <= part.size
         /\ i < Len(part.partitions) => Len(part.partitions[i]) = part.size
    /\ (part.a = <<>>) => (part.partitions = <<>>)

\* C9: for size >= 1, partition(a, size) terminates and returns consecutive
\* chunks whose concatenation is a, every chunk but the last of exactly size
\* elements and the last of 1..size (none for an empty a), a itself unmodified;
\* a pass of the loop shortens the copy only when size is positive.
C9_PartitionChunks ==
  /\ []PartitionResultRight
  /\ [][part.pc = "loop" /\ part'.pc = "loop" /\ part' # part
          => (Len(part'.copy) < Len(part.copy) <=> part.size > 0)]_vars
  /\ (part.pc = "loop" /\ part.size >= 1) ~> (part.pc = "done")

\* a call that ended with a short last chunk after two full ones
C9_Witness ==
  /\ part.pc = "done"
  /\ part.size = 2
  /\ Len(part.a) = MaxPart
  /\ Len(part.partitions) = 2

\* no non-finite number in the value or in its elements and members
Representable(v) ==
  v.t # "Infinity" /\ \A i \in DOMAIN v.kids : v.kids[i].t # "Infinity"

\* C10 as stated: for every valid JSON text s, AdHoc.parse(s).data equals
\* JSON-decode(s), and AdHoc.parse(c.toJSON()).data equals c.data for every
\* container c.
C10_ParseKeepsDocument ==
  /\ adhoc.op = "parse" => ~adhoc.threw /\ adhoc.data = adhoc.doc
  /\ adhoc.op = "roundtrip" => ~adhoc.threw /\ adhoc.data = adhoc.orig

\* C10 amended: for every valid JSON text s, AdHoc.parse(s).data equals
\* JSON-decode(s) when that value is truthy and is an empty object when it is
\* null, false, 0 or the empty string; AdHoc.parse(c.toJSON()).data equals
\* c.data for every container c whose data JSON can represent.
C10_ParseDefaultsFalsy ==
  /\ adhoc.op = "parse" =>
       /\ ~adhoc.threw
       /\ adhoc.data = IF falsy(adhoc.doc) THEN EmptyObject ELSE adhoc.doc
  /\ adhoc.op = "roundtrip" /\ Representable(adhoc.orig) =>
       ~adhoc.threw /\ adhoc.data = adhoc.orig

\* the document 0 was parsed into a container holding an empty object
C10_Witness ==
  /\ adhoc.op = "parse"
  /\ adhoc.doc = JNumber(0)
  /\ adhoc.text = <<" ", "0">>
  /\ adhoc.data = EmptyObject

====
